---- MODULE Spec2Model ----
(***************************************************************************)
(* Model of the structural-features (SF) boundary detector of msaf,        *)
(* src/algorithms/sf/segmenter.py: Segmenter.process and the functions it  *)
(* calls (embedded_space, circular_shift, gaussian_filter, compute_nc,     *)
(* pick_peaks).                                                            *)
(*                                                                         *)
(* Conventions.  Arrays are functions on 0..n-1 (the source's indices),    *)
(* Python lists are sequences.  Times are integers in an abstract tick.    *)
(* Real parameters are exact rationals [n |-> numerator, d |-> denominator]*)
(* and the arithmetic is exact (no floating-point rounding).  A float      *)
(* array is a record [nan, len, num, den]: entry i < len is num[i]/den, or   *)
(* NaN for every entry when nan is TRUE.  In process the numeric content of the    *)
(* matrices E, R, L and SF is computed by librosa and scipy; there a       *)
(* matrix is its shape and the chain of calls that produced it ("data"),   *)
(* and the Euclidean distances between the consecutive rows of SF are the  *)
(* input "dist", fixed for the supplied feature matrix and config.         *)
(***************************************************************************)
EXTENDS Integers, Sequences, FiniteSets, TLC

VARIABLES
    pc,           \* position in Segmenter.process
    run,          \* 1 or 2: number of the current call of process
    config,       \* self.config
    F,            \* the feature matrix returned by _preprocess
    frame_times,  \* the frame -> time mapping returned by _preprocess
    dur,          \* the track duration returned by _preprocess
    dist,         \* distance.euclidean of consecutive SF rows for (F, config)
    E, R, L, SF,  \* locals of process: the matrices of the pipeline
    nc,           \* local: the novelty curve
    est_bounds,   \* local: the estimated boundaries (frame indices)
    bound_idxs,   \* local: boundary indices with first and last frame
    est_times,    \* local: boundary times before _postprocess
    est_labels,   \* local: labels before _postprocess
    ret,          \* the value returned by the current call
    ret1,         \* the value returned by the first call
    trace,        \* the stages executed by the current call, in order
    X,            \* circular_shift alone: the argument
    Lag,          \* circular_shift alone: the matrix L being built
    i,            \* circular_shift alone: the loop variable i
    pk,           \* pick_peaks alone: the arguments [nc, L, offset_denom]
    peaks,        \* pick_peaks alone: the result
    em,           \* embedded_space alone: the arguments [X, N, D, m]
    Y             \* embedded_space alone: the result, or the error raised

vars == <<pc, run, config, F, frame_times, dur, dist, E, R, L, SF, nc,
          est_bounds, bound_idxs, est_times, est_labels, ret, ret1, trace,
          X, Lag, i, pk, peaks, em, Y>>

(***************************************************************************)
(* Bounds of the model                                                     *)
(***************************************************************************)
MaxDist == 2      \* distances between SF rows range over 0..MaxDist
MaxN == 3         \* circular_shift alone: matrices up to MaxN x MaxN
MaxLen == 5       \* pick_peaks alone: novelty curves of length 1..MaxLen
MaxNc == 2        \* pick_peaks alone: novelty values 0..MaxNc

(***************************************************************************)
(* Arithmetic helpers                                                      *)
(***************************************************************************)
Rat(n, d) == [n |-> n, d |-> d]

\* np.ceil of a positive-denominator rational
Ceil(q) == -((-(q.n)) \div q.d)

\* int() of a non-negative rational
Floor(q) == q.n \div q.d

Half(q) == Rat(q.n, 2 * q.d)

Positive(q) == q.n > 0

RECURSIVE SumTo(_, _)
SumTo(f, n) == IF n = 0 THEN 0 ELSE f[n - 1] + SumTo(f, n - 1)

MinOf(S) == CHOOSE v \in S : \A w \in S : v <= w

MaxOf(S) == CHOOSE v \in S : \A w \in S : v >= w

Abs(v) == IF v < 0 THEN -v ELSE v

Image(f) == {f[k] : k \in DOMAIN f}

(***************************************************************************)
(* scipy.ndimage.filters.median_filter(nc, size=L), as pick_peaks calls it *)
(* (mode "reflect", origin 0): the window of entry i covers the indices    *)
(* i - L/2 .. i - L/2 + L - 1, indices outside the array are reflected     *)
(* about its edges, and the result is the element of rank L/2 of the       *)
(* sorted window.                                                          *)
(***************************************************************************)
Reflect(j, n) ==
    LET p == j % (2 * n)
    IN  IF p < n THEN p ELSE 2 * n - 1 - p

Window(a, n, size, k) ==
    [t \in 0..(size - 1) |-> a[Reflect(k - (size \div 2) + t, n)]]

RankOf(w, r) ==
    CHOOSE v \in Image(w) :
        /\ Cardinality({t \in DOMAIN w : w[t] < v}) <= r
        /\ Cardinality({t \in DOMAIN w : w[t] <= v}) > r

median_filter_1d(a, n, size) ==
    [k \in 0..(n - 1) |-> RankOf(Window(a, n, size, k), size \div 2)]

(***************************************************************************)
(* pick_peaks(nc, L, offset_denom), lines 80-96.  nc[i] = nc.num[i]/nc.den *)
(* and offset_denom = od.n/od.d, so with n = len(nc) the test              *)
(*     nc[i] > th[i] = median[i] + nc.mean() * offset_denom                *)
(* is, multiplied by the positive n * nc.den * od.d,                       *)
(*     num[i]*n*od.d > med[i]*n*od.d + sum(num)*od.n.                      *)
(* Every comparison with NaN is False, so a NaN curve has no peaks.        *)
(***************************************************************************)
IsLocalMaxLoose(a, k) == a[k - 1] <= a[k] /\ a[k] >= a[k + 1]

\* line 92: is it a peak?
IsLocalMax(a, k) == a[k - 1] < a[k] /\ a[k] > a[k + 1]

\* line 94: is it above the threshold?
AboveThreshold(a, n, size, od, k) ==
    LET med == median_filter_1d(a, n, size)
    IN  a[k] * n * od.d > med[k] * n * od.d + SumTo(a, n) * od.n

RECURSIVE PeakLoopPrepend(_, _, _, _, _, _)
PeakLoopPrepend(a, n, size, od, i0, acc) ==
    IF i0 >= n - 1 THEN acc
    ELSE IF IsLocalMax(a, i0) /\ AboveThreshold(a, n, size, od, i0)
         THEN PeakLoopPrepend(a, n, size, od, i0 + 1, <<i0>> \o acc)
         ELSE PeakLoopPrepend(a, n, size, od, i0 + 1, acc)

RECURSIVE PeakLoop(_, _, _, _, _, _)
PeakLoop(a, n, size, od, i0, acc) ==
    IF i0 >= n - 1 THEN acc
    ELSE IF IsLocalMax(a, i0) /\ AboveThreshold(a, n, size, od, i0)
         THEN PeakLoop(a, n, size, od, i0 + 1, Append(acc, i0))
         ELSE PeakLoop(a, n, size, od, i0 + 1, acc)

pick_peaks(curve, size, od) ==
    IF curve.nan THEN << >>
    ELSE PeakLoop(curve.num, curve.len, size, od, 1, << >>)

(***************************************************************************)
(* compute_nc(X), lines 65-77, on the distances d[i] between rows i and    *)
(* i+1 of X (N rows): nc = zeros(N), nc[i] = d[i] for i < N-1, then        *)
(* nc += |nc.min()| and nc /= nc.max().  With numpy's default error state  *)
(* a division 0/0 is NaN (a warning, no exception).                        *)
(***************************************************************************)
compute_nc_by_sum(d, N) ==
    LET raw == [k \in 0..(N - 1) |-> IF k < N - 1 THEN d[k] ELSE 0]
        total == SumTo(raw, N)
    IN  IF total = 0
        THEN [nan |-> TRUE, len |-> N, num |-> raw, den |-> 0]
        ELSE [nan |-> FALSE, len |-> N, num |-> raw, den |-> total]

compute_nc(d, N) ==
    LET raw == [k \in 0..(N - 1) |-> IF k < N - 1 THEN d[k] ELSE 0]
        shift == Abs(MinOf(Image(raw)))
        shifted == [k \in 0..(N - 1) |-> raw[k] + shift]
        mx == MaxOf(Image(shifted))
    IN  IF mx = 0
        THEN [nan |-> TRUE, len |-> N, num |-> shifted, den |-> 0]
        ELSE [nan |-> FALSE, len |-> N, num |-> shifted, den |-> mx]

(***************************************************************************)
(* circular_shift(X), lines 99-106, on a square matrix given as a function *)
(* [0..N-1 -> [0..N-1 -> value]]; L is freshly allocated (np.zeros).       *)
(***************************************************************************)
\* line 105: the row assigned to L[i, :]
ShiftRowProduct(M, N, k) == [j \in 0..(N - 1) |-> M[(k * j) % N][j]]

ShiftRowMinus(M, N, k) == [j \in 0..(N - 1) |-> M[(k - j) % N][j]]

ShiftRow(M, N, k) == [j \in 0..(N - 1) |-> M[(k + j) % N][j]]

\* line 103: np.zeros(X.shape)
Zeros(N) == [k \in 0..(N - 1) |-> [j \in 0..(N - 1) |-> 0]]

(***************************************************************************)
(* Shapes and provenance of the matrices inside process.                   *)
(***************************************************************************)
Mat(rows, cols, data) == [rows |-> rows, cols |-> cols, data |-> data]

Unset == Mat(0, 0, << >>)

\* line 111: N = X.shape[0] - int(np.ceil(m))
EmbedRowCountFloor(N, m) == N - Floor(m)

EmbedRowCount(N, m) == N - Ceil(m)

\* line 112: int(np.ceil(X.shape[1] * m))
EmbedWidth(D, m) == Ceil(Rat(D * m.n, m.d))

\* line 116: rem = int((m % 1) * X.shape[1])
EmbedRem(D, m) == ((m.n % m.d) * D) \div m.d

\* lines 117-118: X[i:i + int(m), :].flatten() followed by X[i + int(m), :rem]
EmbedRowValue(Xc, D, m, k) ==
    LET whole == Floor(m) * D
    IN  [c \in 0..(whole + EmbedRem(D, m) - 1) |->
            IF c < whole THEN Xc[k + (c \div D)][c % D]
            ELSE Xc[k + Floor(m)][c - whole]]

EmbedError(kind) == [status |-> kind, rows |-> 0, cols |-> 0, rowsOf |-> << >>]

\* embedded_space(X, m), lines 109-119, on the content Xc of X (N x D).
\* np.zeros raises ValueError for a negative dimension; X[i + int(m)] raises
\* IndexError past the last frame; the assignment Y[i, :] = v broadcasts a
\* v of length 1 and raises ValueError for any other length but the width.
embedded_space_content(Xc, N, D, m) ==
    LET rows == EmbedRowCount(N, m)
        width == EmbedWidth(D, m)
        len == Floor(m) * D + EmbedRem(D, m)
    IN  IF rows < 0 THEN EmbedError("ValueError")
        ELSE IF rows > 0 /\ (rows - 1) + Floor(m) >= N THEN EmbedError("IndexError")
        ELSE IF rows > 0 /\ len # width /\ len # 1 THEN EmbedError("ValueError")
        ELSE [status |-> "ok", rows |-> rows, cols |-> width,
              rowsOf |-> [k \in 0..(rows - 1) |->
                            [c \in 0..(width - 1) |->
                                IF len = width THEN EmbedRowValue(Xc, D, m, k)[c]
                                ELSE EmbedRowValue(Xc, D, m, k)[0]]]]

\* embedded_space(X, m), lines 109-119: the shape of Y
embedded_space(M, m) ==
    Mat(EmbedRowCount(M.rows, m), EmbedWidth(M.cols, m),
        Append(M.data, "embedded_space"))

\* the argument X after embedded_space(X, m): X is only read
embedded_space_arg_written(M, m) == Mat(M.rows, M.cols, Append(M.data, "written"))

embedded_space_arg(M, m) == M

\* librosa.segment.recurrence_matrix(E.T, ...), lines 154-158: E.T holds one
\* embedded frame per column and R relates the frames pairwise
recurrence_matrix(M) == Mat(M.rows, M.rows, Append(M.data, "recurrence_matrix"))

\* circular_shift(X): np.zeros(X.shape), lines 102-103
circular_shift_shape(M) == Mat(M.rows, M.cols, Append(M.data, "circular_shift"))

\* M.T: a view of M
Transpose(M) == Mat(M.cols, M.rows, M.data)

\* gaussian_filter(X, M, axis), lines 38-45: X is filtered in place and
\* returned, so the array behind the view L.T is L filtered
gaussian_filter(M) == Mat(M.rows, M.cols, Append(M.data, "gaussian_filter"))

\* the argument X after gaussian_filter(X, M, axis): lines 42 and 44 assign
\* the filtered columns or rows to X itself
gaussian_filter_arg(M) == gaussian_filter(M)

\* the data of SF when both filters were applied to the lag matrix of the
\* recurrence matrix of the embedding of the supplied F
SuppliedChain ==
    <<"F", "embedded_space", "recurrence_matrix", "circular_shift",
      "gaussian_filter", "gaussian_filter">>

\* distance.euclidean(X[i, :], X[i + 1, :]), line 72, for the rows of SF
RowDistances(M) ==
    IF M.data = SuppliedChain THEN dist
    ELSE [k \in 0..(M.rows - 2) |-> 0]

(***************************************************************************)
(* Segmenter.process, lines 123-206                                        *)
(***************************************************************************)
MinFramesOneMore == 20 + 1

MinFrames == 20

\* the inputs: what _preprocess and self.config supply
FrameCounts == {10, 19, 20, 21, 22}

Dims == {2}

EmbedOrders == {Rat(17, 1), Rat(18, 1), Rat(35, 2)}

ValidConfigs ==
    [Mp_adaptive : {3, 16}, offset_thres : {Rat(1, 10), Rat(1, 2)},
     M_gaussian : {9}, m_embedded : EmbedOrders, k_nearest : {Rat(1, 25)}]

InvalidConfigs ==
    [Mp_adaptive : {16}, offset_thres : {Rat(1, 10)},
     M_gaussian : {9}, m_embedded : {Rat(17, 1)}, k_nearest : {Rat(0, 1)}]
    \cup
    [Mp_adaptive : {16}, offset_thres : {Rat(1, 10)},
     M_gaussian : {0}, m_embedded : {Rat(18, 1)}, k_nearest : {Rat(1, 25)}]

ConfigValid(c) ==
    /\ c.Mp_adaptive > 0
    /\ Positive(c.offset_thres)
    /\ c.M_gaussian > 0
    /\ Positive(c.m_embedded)
    /\ Positive(c.k_nearest)

\* non-decreasing frame times: frame i at t0 + i, or two frames per tick
FrameTimes(len, t0, paired) ==
    [k \in 0..(len - 1) |-> t0 + (IF paired THEN k \div 2 ELSE k)]

FrameTimesSet(N) ==
    {FrameTimes(len, t0, paired) :
        len \in {N, N + 1}, t0 \in {0, 1}, paired \in BOOLEAN}

ArrayLen(a) == Cardinality(DOMAIN a)

LastOf(a) == a[ArrayLen(a) - 1]

DistSet(M, c) ==
    IF M.rows > MinFrames
    THEN [0..(M.rows - Ceil(c.m_embedded) - 2) -> 0..MaxDist]
    ELSE {<< >>}

NoCurve == [nan |-> FALSE, len |-> 0, num |-> << >>, den |-> 1]

NoRet == [status |-> "none", times |-> << >>, labels |-> << >>]

NoArgs == [nc |-> NoCurve, L |-> 1, offset_denom |-> Rat(0, 1)]

NoEmbedArgs == [X |-> << >>, N |-> 0, D |-> 1, m |-> Rat(1, 1)]

NoEmbed == EmbedError("none")

Init ==
    /\ pc = "preprocess"
    /\ run = 1
    /\ config \in ValidConfigs \cup InvalidConfigs
    /\ F \in {Mat(n, d, <<"F">>) : n \in FrameCounts, d \in Dims}
    /\ frame_times \in FrameTimesSet(F.rows)
    /\ dur \in {LastOf(frame_times), LastOf(frame_times) + 1}
    /\ dist \in DistSet(F, config)
    /\ E = Unset /\ R = Unset /\ L = Unset /\ SF = Unset
    /\ nc = NoCurve
    /\ est_bounds = << >>
    /\ bound_idxs = << >>
    /\ est_times = << >>
    /\ est_labels = << >>
    /\ ret = NoRet
    /\ ret1 = NoRet
    /\ trace = << >>
    /\ X = << >> /\ Lag = << >> /\ i = 0 /\ pk = NoArgs /\ peaks = << >>
    /\ em = NoEmbedArgs /\ Y = NoEmbed

inputVars == <<config, F, frame_times, dur, dist>>

aloneVars == <<X, Lag, i, pk, peaks, em, Y>>

\* lines 132-144: read the parameters, call _preprocess
Preprocess ==
    /\ pc = "preprocess"
    /\ pc' = "check"
    /\ trace' = << >>
    /\ UNCHANGED <<run, inputVars, E, R, L, SF, nc, est_bounds, bound_idxs,
                   est_times, est_labels, ret, ret1, aloneVars>>

\* line 147, true branch
EnterNormal ==
    /\ pc = "check"
    /\ F.rows > MinFrames
    /\ pc' = "embed"
    /\ UNCHANGED <<run, inputVars, E, R, L, SF, nc, est_bounds, bound_idxs,
                   est_times, est_labels, ret, ret1, trace, aloneVars>>

\* lines 179-180: the track is too short
TooShort ==
    /\ pc = "check"
    /\ ~(F.rows > MinFrames)
    /\ est_bounds' = << >>
    /\ pc' = "assemble"
    /\ UNCHANGED <<run, inputVars, E, R, L, SF, nc, bound_idxs,
                   est_times, est_labels, ret, ret1, trace, aloneVars>>

\* line 150
Embed ==
    /\ pc = "embed"
    /\ E' = embedded_space(F, config.m_embedded)
    /\ F' = embedded_space_arg(F, config.m_embedded)
    /\ trace' = Append(trace, "embedded_space")
    /\ pc' = "recurrence"
    /\ UNCHANGED <<run, config, frame_times, dur, dist, R, L, SF, nc,
                   est_bounds, bound_idxs, est_times, est_labels, ret, ret1,
                   aloneVars>>

\* lines 154-158
Recurrence ==
    /\ pc = "recurrence"
    /\ R' = recurrence_matrix(E)
    /\ trace' = Append(trace, "recurrence_matrix")
    /\ pc' = "shift"
    /\ UNCHANGED <<run, inputVars, E, L, SF, nc, est_bounds, bound_idxs,
                   est_times, est_labels, ret, ret1, aloneVars>>

\* line 161
Shift ==
    /\ pc = "shift"
    /\ L' = circular_shift_shape(R)
    /\ trace' = Append(trace, "circular_shift")
    /\ pc' = "filter_wide"
    /\ UNCHANGED <<run, inputVars, E, R, SF, nc, est_bounds, bound_idxs,
                   est_times, est_labels, ret, ret1, aloneVars>>

\* line 166: L.T is filtered in place, SF is that view of L
FilterWide ==
    /\ pc = "filter_wide"
    /\ L' = Transpose(gaussian_filter_arg(Transpose(L)))
    /\ SF' = gaussian_filter(Transpose(L))
    /\ trace' = Append(trace, "gaussian_filter")
    /\ pc' = "filter_narrow"
    /\ UNCHANGED <<run, inputVars, E, R, nc, est_bounds, bound_idxs,
                   est_times, est_labels, ret, ret1, aloneVars>>

\* line 167: L.T, already filtered, is filtered in place again
FilterNarrow ==
    /\ pc = "filter_narrow"
    /\ L' = Transpose(gaussian_filter_arg(Transpose(L)))
    /\ SF' = gaussian_filter(Transpose(L))
    /\ trace' = Append(trace, "gaussian_filter")
    /\ pc' = "novelty"
    /\ UNCHANGED <<run, inputVars, E, R, nc, est_bounds, bound_idxs,
                   est_times, est_labels, ret, ret1, aloneVars>>

\* line 172
Novelty ==
    /\ pc = "novelty"
    /\ nc' = compute_nc(RowDistances(SF), SF.rows)
    /\ trace' = Append(trace, "compute_nc")
    /\ pc' = "peaks"
    /\ UNCHANGED <<run, inputVars, E, R, L, SF, est_bounds, bound_idxs,
                   est_times, est_labels, ret, ret1, aloneVars>>

\* line 175
Peaks ==
    /\ pc = "peaks"
    /\ est_bounds' = pick_peaks(nc, config.Mp_adaptive, config.offset_thres)
    /\ trace' = Append(trace, "pick_peaks")
    /\ pc' = "realign"
    /\ UNCHANGED <<run, inputVars, E, R, L, SF, nc, bound_idxs,
                   est_times, est_labels, ret, ret1, aloneVars>>

\* line 178: np.asarray(est_bounds) + int(np.ceil(m / 2.))
realign_truncated(bounds, m) == [b \in DOMAIN bounds |-> bounds[b] + Floor(Half(m))]

realign(bounds, m) == [b \in DOMAIN bounds |-> bounds[b] + Ceil(Half(m))]

Realign ==
    /\ pc = "realign"
    /\ est_bounds' = realign(est_bounds, config.m_embedded)
    /\ pc' = "assemble"
    /\ UNCHANGED <<run, inputVars, E, R, L, SF, nc, bound_idxs,
                   est_times, est_labels, ret, ret1, trace, aloneVars>>

\* lines 183-184 and 187: add first and last frames
add_last_only(bounds, times) == bounds \o <<ArrayLen(times) - 1>>

add_first_last(bounds, times) == <<0>> \o bounds \o <<ArrayLen(times) - 1>>

\* line 188: add first and last boundaries (silence) and convert to times
to_times_no_dur(idxs, times, d) ==
    <<0>> \o [b \in DOMAIN idxs |-> times[idxs[b]]]

to_times(idxs, times, d) ==
    <<0>> \o [b \in DOMAIN idxs |-> times[idxs[b]]] \o <<d>>

\* line 191: np.ones(len(est_times) - 1) * -1
empty_labels_one_per_time(times) == [b \in 1..Len(times) |-> -1]

empty_labels(times) == [b \in 1..(Len(times) - 1) |-> -1]

Assemble ==
    /\ pc = "assemble"
    /\ bound_idxs' = add_first_last(est_bounds, frame_times)
    /\ est_times' = to_times(bound_idxs', frame_times, dur)
    /\ est_labels' = empty_labels(est_times')
    /\ trace' = Append(trace, "assemble")
    /\ pc' = "postprocess"
    /\ UNCHANGED <<run, inputVars, E, R, L, SF, nc, est_bounds, ret, ret1,
                   aloneVars>>

\* _postprocess(est_times, est_labels), line 194: every empty segment
\* (a boundary equal to the one before it) is removed with its label
RECURSIVE remove_empty(_, _)
remove_empty(times, labels) ==
    IF Len(times) <= 1 THEN <<times, labels>>
    ELSE LET rest == remove_empty(Tail(times),
                                  IF labels = << >> THEN << >> ELSE Tail(labels))
         IN  IF times[1] = times[2] THEN rest
             ELSE <<<<times[1]>> \o rest[1],
                    (IF labels = << >> THEN << >> ELSE <<labels[1]>>) \o rest[2]>>

Postprocess ==
    /\ pc = "postprocess"
    /\ LET out == remove_empty(est_times, est_labels)
       IN  ret' = [status |-> "ok", times |-> out[1], labels |-> out[2]]
    /\ trace' = Append(trace, "_postprocess")
    /\ pc' = "return"
    /\ UNCHANGED <<run, inputVars, E, R, L, SF, nc, est_bounds, bound_idxs,
                   est_times, est_labels, ret1, aloneVars>>

\* line 206: the call returns and its locals are gone
Return ==
    /\ pc = "return"
    /\ pc' = "done"
    /\ E' = Unset /\ R' = Unset /\ L' = Unset /\ SF' = Unset
    /\ nc' = NoCurve
    /\ est_bounds' = << >>
    /\ bound_idxs' = << >>
    /\ est_times' = << >>
    /\ est_labels' = << >>
    /\ UNCHANGED <<run, inputVars, ret, ret1, trace, aloneVars>>

\* a second call of process on the same segmenter object and inputs
CallAgain ==
    /\ pc = "done"
    /\ run = 1
    /\ run' = 2
    /\ ret1' = ret
    /\ ret' = NoRet
    /\ pc' = "preprocess"
    /\ UNCHANGED <<inputVars, E, R, L, SF, nc, est_bounds, bound_idxs,
                   est_times, est_labels, trace, aloneVars>>

Next ==
    \/ Preprocess
    \/ EnterNormal
    \/ TooShort
    \/ Embed
    \/ Recurrence
    \/ Shift
    \/ FilterWide
    \/ FilterNarrow
    \/ Novelty
    \/ Peaks
    \/ Realign
    \/ Assemble
    \/ Postprocess
    \/ Return
    \/ CallAgain

Spec == Init /\ [][Next]_vars

(***************************************************************************)
(* circular_shift alone, lines 99-106, on every square matrix of 0/1       *)
(* entries (the values of a recurrence matrix) up to MaxN x MaxN, one      *)
(* step per iteration of the loop of line 104.                             *)
(***************************************************************************)
SquareMatrices(N) == [0..(N - 1) -> [0..(N - 1) -> {0, 1}]]

processIdle ==
    /\ run = 1
    /\ config \in {c \in ValidConfigs :
                      /\ c.Mp_adaptive = 16
                      /\ c.offset_thres = Rat(1, 10)
                      /\ c.m_embedded = Rat(17, 1)}
    /\ F = Mat(10, 2, <<"F">>)
    /\ frame_times = FrameTimes(10, 0, FALSE)
    /\ dur = 10
    /\ dist = << >>
    /\ E = Unset /\ R = Unset /\ L = Unset /\ SF = Unset
    /\ nc = NoCurve
    /\ est_bounds = << >>
    /\ bound_idxs = << >>
    /\ est_times = << >>
    /\ est_labels = << >>
    /\ ret = NoRet
    /\ ret1 = NoRet
    /\ trace = << >>

processVars ==
    <<run, inputVars, E, R, L, SF, nc, est_bounds, bound_idxs, est_times,
      est_labels, ret, ret1, trace>>

InitShift ==
    /\ pc = "shift_call"
    /\ \E N \in 0..MaxN : X \in SquareMatrices(N)
    /\ Lag = << >>
    /\ i = 0
    /\ pk = NoArgs
    /\ peaks = << >>
    /\ em = NoEmbedArgs /\ Y = NoEmbed
    /\ processIdle

\* the argument X after a step of circular_shift: X is only read
shift_arg(M, k) == M

\* lines 102-103
ShiftAlloc ==
    /\ pc = "shift_call"
    /\ Lag' = Zeros(ArrayLen(X))
    /\ i' = 0
    /\ pc' = "shift_loop"
    /\ UNCHANGED <<X, pk, peaks, em, Y, processVars>>

\* lines 104-105, one iteration
ShiftIter ==
    /\ pc = "shift_loop"
    /\ i < ArrayLen(X)
    /\ Lag' = [Lag EXCEPT ![i] = ShiftRow(X, ArrayLen(X), i)]
    /\ X' = shift_arg(X, i)
    /\ i' = i + 1
    /\ UNCHANGED <<pc, pk, peaks, em, Y, processVars>>

\* line 106
ShiftReturn ==
    /\ pc = "shift_loop"
    /\ ~(i < ArrayLen(X))
    /\ pc' = "shift_done"
    /\ UNCHANGED <<X, Lag, i, pk, peaks, em, Y, processVars>>

NextShift ==
    \/ ShiftAlloc
    \/ ShiftIter
    \/ ShiftReturn

SpecShift == InitShift /\ [][NextShift]_vars

(***************************************************************************)
(* pick_peaks alone, lines 80-96, on every novelty curve of length         *)
(* 1..MaxLen with values 0..MaxNc.                                         *)
(***************************************************************************)
Curves ==
    UNION {{[nan |-> FALSE, len |-> n, num |-> a, den |-> 1] :
               a \in [0..(n - 1) -> 0..MaxNc]} : n \in 1..MaxLen}

FilterSizes == {1, 2, 3, 16}

OffsetDenoms == {Rat(0, 1), Rat(1, 10), Rat(1, 2)}

InitPeaks ==
    /\ pc = "peaks_call"
    /\ pk \in [nc : Curves, L : FilterSizes, offset_denom : OffsetDenoms]
    /\ peaks = << >>
    /\ X = << >> /\ Lag = << >> /\ i = 0
    /\ em = NoEmbedArgs /\ Y = NoEmbed
    /\ processIdle

PeaksAlone ==
    /\ pc = "peaks_call"
    /\ peaks' = pick_peaks(pk.nc, pk.L, pk.offset_denom)
    /\ pc' = "peaks_done"
    /\ UNCHANGED <<X, Lag, i, pk, em, Y, processVars>>

NextPeaks == PeaksAlone

SpecPeaks == InitPeaks /\ [][NextPeaks]_vars

(***************************************************************************)
(* embedded_space alone, lines 109-119, on feature matrices of 0..MaxFrames*)
(* frames of 1..MaxDim components, entry (r, c) holding the number r*D + c,*)
(* for integer and fractional orders m that floating point holds exactly.  *)
(***************************************************************************)
MaxFrames == 4

MaxDim == 2

AloneOrders ==
    {Rat(1, 1), Rat(2, 1), Rat(3, 1), Rat(3, 2), Rat(5, 2), Rat(5, 4), Rat(7, 4)}

Numbered(N, D) == [r \in 0..(N - 1) |-> [c \in 0..(D - 1) |-> r * D + c]]

InitEmbed ==
    /\ pc = "embed_call"
    /\ \E N \in 0..MaxFrames : \E D \in 1..MaxDim : \E m \in AloneOrders :
           em = [X |-> Numbered(N, D), N |-> N, D |-> D, m |-> m]
    /\ Y = NoEmbed
    /\ X = << >> /\ Lag = << >> /\ i = 0
    /\ pk = NoArgs
    /\ peaks = << >>
    /\ processIdle

EmbedAlone ==
    /\ pc = "embed_call"
    /\ Y' = embedded_space_content(em.X, em.N, em.D, em.m)
    /\ pc' = "embed_done"
    /\ UNCHANGED <<X, Lag, i, pk, peaks, em, processVars>>

NextEmbed == EmbedAlone

SpecEmbed == InitEmbed /\ [][NextEmbed]_vars

(***************************************************************************)
(* compute_nc alone, lines 65-77, on structural features of 1..MaxRows     *)
(* rows, given by the distances between their consecutive rows.            *)
(***************************************************************************)
MaxRows == 5

InitNc ==
    /\ pc = "nc_call"
    /\ \E n \in 1..MaxRows :
           /\ SF = Mat(n, n, SuppliedChain)
           /\ dist \in [0..(n - 2) -> 0..MaxDist]
    /\ nc = NoCurve
    /\ run = 1
    /\ config \in {c \in ValidConfigs :
                      /\ c.Mp_adaptive = 16
                      /\ c.offset_thres = Rat(1, 10)
                      /\ c.m_embedded = Rat(17, 1)}
    /\ F = Mat(10, 2, <<"F">>)
    /\ frame_times = FrameTimes(10, 0, FALSE)
    /\ dur = 10
    /\ E = Unset /\ R = Unset /\ L = Unset
    /\ est_bounds = << >>
    /\ bound_idxs = << >>
    /\ est_times = << >>
    /\ est_labels = << >>
    /\ ret = NoRet
    /\ ret1 = NoRet
    /\ trace = << >>
    /\ X = << >> /\ Lag = << >> /\ i = 0 /\ pk = NoArgs /\ peaks = << >>
    /\ em = NoEmbedArgs /\ Y = NoEmbed

NoveltyAlone ==
    /\ pc = "nc_call"
    /\ nc' = compute_nc(RowDistances(SF), SF.rows)
    /\ pc' = "nc_done"
    /\ UNCHANGED <<run, inputVars, E, R, L, SF, est_bounds, bound_idxs,
                   est_times, est_labels, ret, ret1, trace, aloneVars>>

NextNc == NoveltyAlone

SpecNc == InitNc /\ [][NextNc]_vars

(***************************************************************************)
(* Properties                                                              *)
(***************************************************************************)
Elems(q) == {q[b] : b \in DOMAIN q}

StrictlyIncreasing(q) == \A b \in DOMAIN q : \A c \in DOMAIN q : b < c => q[b] < q[c]

NonDecreasing(q) == \A b \in DOMAIN q : \A c \in DOMAIN q : b < c => q[b] <= q[c]

AllPlaceholder(q) == \A b \in DOMAIN q : q[b] = -1

Executed(stage) == \E b \in DOMAIN trace : trace[b] = stage

PipelineStages ==
    {"embedded_space", "recurrence_matrix", "circular_shift",
     "gaussian_filter", "compute_nc", "pick_peaks"}

C2_Sentinels ==
    pc = "return"
        => /\ est_times[1] = 0
           /\ est_times[Len(est_times)] = dur
           /\ ret.times[1] = 0
           /\ ret.times[Len(ret.times)] = dur

\* C2 witness: a NORMAL run with a picked peak, last frame before duration.
C2_Witness ==
    /\ pc = "return"
    /\ F.rows > MinFrames
    /\ Len(est_bounds) >= 1
    /\ LastOf(frame_times) < dur

C4_LabelCount ==
    pc = "return"
        => /\ Len(est_labels) = Len(est_times) - 1
           /\ AllPlaceholder(est_labels)
           /\ Len(ret.labels) = Len(ret.times) - 1
           /\ AllPlaceholder(ret.labels)

\* C4 witness: a NORMAL run with a peak where _postprocess removed a segment.
C4_Witness ==
    /\ pc = "return"
    /\ F.rows > MinFrames
    /\ Len(est_bounds) >= 1
    /\ Len(ret.labels) < Len(est_labels)

\* C5, determinism: a second call on the same inputs returns what the first
\* call returned, and no step changes the feature matrix, the frame times,
\* the duration or the config.
C5_Determinism ==
    /\ [](pc = "done" /\ run = 2 => ret = ret1)
    /\ [][UNCHANGED <<F, config, frame_times, dur>>]_vars

\* C5 witness: the second call has returned a segmentation with a picked
\* peak among its boundaries.
C5_Witness ==
    /\ pc = "done"
    /\ run = 2
    /\ Executed("pick_peaks")
    /\ Len(ret.times) >= 5

\* C6, as stated: when the novelty curve is all-zero before normalization
\* (max(nc) == 0), process reports a failure and returns no segmentation.
C6_DegenerateFails ==
    (pc = "return" /\ Executed("compute_nc") /\ nc.nan) => ret.status = "error"

\* C7, as stated: with a non-positive config parameter process fails before
\* any pipeline stage is executed, on both paths.
C7_FailFast ==
    ~ConfigValid(config)
        => /\ \A st \in PipelineStages : ~Executed(st)
           /\ pc \in {"return", "done"} => ret.status = "error"

\* the inverse circular shift of C9: R'[i][j] = L[(i - j) mod n][j]
InverseShift(M, N) ==
    [k \in 0..(N - 1) |-> [j \in 0..(N - 1) |-> M[(k - j) % N][j]]]

\* the matrices that differ from M in exactly one entry
OneEntryChanged(M, N) ==
    {[M EXCEPT ![k][j] = 1 - M[k][j]] : k \in 0..(N - 1), j \in 0..(N - 1)}

ShiftOf(M, N) == [k \in 0..(N - 1) |-> ShiftRow(M, N, k)]

\* C8, lag transform: the result of circular_shift has the shape of R and
\* L[i][j] == R[(i+j) mod n][j]; R is never written; the 0 x 0 matrix
\* gives the 0 x 0 matrix.
C8_LagTransform ==
    /\ [](pc = "shift_done"
            => LET N == ArrayLen(X)
               IN  /\ DOMAIN Lag = 0..(N - 1)
                   /\ \A k \in 0..(N - 1) :
                          /\ DOMAIN Lag[k] = 0..(N - 1)
                          /\ \A j \in 0..(N - 1) : Lag[k][j] = X[(k + j) % N][j]
                   /\ (N = 0 => Lag = << >>))
    /\ [][X' = X]_vars

\* C8 witness: a 3 x 3 matrix with different rows has been shifted.
C8_Witness ==
    /\ pc = "shift_done"
    /\ ArrayLen(X) = 3
    /\ X[0] # X[1]
    /\ Lag # X

\* C9, round trip: the inverse circular shift of circular_shift(R) is R, and
\* no matrix that differs from R in one entry has the same lag matrix.
C9_RoundTrip ==
    pc = "shift_done"
        => LET N == ArrayLen(X)
           IN  /\ InverseShift(Lag, N) = X
               /\ \A Other \in OneEntryChanged(X, N) : ShiftOf(Other, N) # Lag

\* C9 witness: a shifted 3 x 3 matrix that shifting twice does not restore.
C9_Witness ==
    /\ pc = "shift_done"
    /\ ArrayLen(X) = 3
    /\ ShiftOf(Lag, 3) # X

\* C10, peak picking: pick_peaks returns, in ascending order, exactly the
\* indices 1 <= i <= n-2 with nc[i-1] < nc[i] > nc[i+1] and nc[i] > th[i],
\* th[i] = median_filter(nc, L)[i] + mean(nc) * offset_denom; never 0 or
\* n-1, and none for a flat curve.
C10_Threshold(a, n, k) ==
    a[k] * n * pk.offset_denom.d >
        median_filter_1d(a, n, pk.L)[k] * n * pk.offset_denom.d
            + SumTo(a, n) * pk.offset_denom.n

C10_PeakPicking ==
    pc = "peaks_done"
        => LET a == pk.nc.num
               n == pk.nc.len
           IN  /\ StrictlyIncreasing(peaks)
               /\ \A k \in 0..(n - 1) :
                      k \in Elems(peaks)
                          <=> /\ 1 <= k
                              /\ k <= n - 2
                              /\ a[k - 1] < a[k]
                              /\ a[k] > a[k + 1]
                              /\ C10_Threshold(a, n, k)
               /\ Elems(peaks) \subseteq 1..(n - 2)
               /\ (\A k \in 0..(n - 1) : a[k] = a[0]) => peaks = << >>

\* C10 witness: a curve with a picked peak and a strict local maximum that
\* is not above the threshold and is not picked.
C10_Witness ==
    /\ pc = "peaks_done"
    /\ peaks # << >>
    /\ LET a == pk.nc.num
           n == pk.nc.len
       IN  \E k \in 1..(n - 2) :
               /\ a[k - 1] < a[k]
               /\ a[k] > a[k + 1]
               /\ ~C10_Threshold(a, n, k)

\* the smallest integer >= q and the largest integer <= q, for q >= 0
CeilingOf(q) == CHOOSE c \in 0..(q.n + 1) : c * q.d >= q.n /\ (c - 1) * q.d < q.n

FloorOf(q) == CHOOSE c \in 0..q.n : c * q.d <= q.n /\ (c + 1) * q.d > q.n

IsInteger(q) == q.n % q.d = 0

\* round((m mod 1) * D), halves rounded up
RoundedRem(D, m) ==
    LET num == (m.n - FloorOf(m) * m.d) * D
    IN  CHOOSE c \in 0..D : 2 * c * m.d >= 2 * num - m.d /\ 2 * c * m.d < 2 * num + m.d

\* C11, embedding shape: for an integer order m and N > m, embedded_space
\* returns N - m rows of D*m entries (92 x 96 for N=100, D=12, m=8), and
\* whenever it returns, for any m, the row count is N - ceil(m).
C11_EmbedShape ==
    /\ EmbedRowCount(100, Rat(8, 1)) = 92
    /\ EmbedWidth(12, Rat(8, 1)) = 96
    /\ pc = "embed_done"
         => /\ (IsInteger(em.m) /\ em.N * em.m.d > em.m.n)
                 => /\ Y.status = "ok"
                    /\ Y.rows * em.m.d = em.N * em.m.d - em.m.n
                    /\ Y.cols * em.m.d = em.D * em.m.n
                    /\ DOMAIN Y.rowsOf = 0..(Y.rows - 1)
                    /\ \A k \in DOMAIN Y.rowsOf :
                           DOMAIN Y.rowsOf[k] = 0..(Y.cols - 1)
            /\ Y.status = "ok" => Y.rows = em.N - CeilingOf(em.m)

\* C11 witness: 4 frames of 2 components embedded with m = 2 gave 2 rows of
\* 4 entries.
C11_Witness ==
    /\ pc = "embed_done"
    /\ em.N = 4 /\ em.D = 2 /\ em.m = Rat(2, 1)
    /\ Y.status = "ok" /\ Y.rows = 2 /\ Y.cols = 4

\* C14, as stated: for every m >= 1, D and row i < N - ceil(m), the width
\* of the result is D*floor(m) + round((m mod 1)*D), the assignment of
\* every row succeeds, frame i + floor(m) exists, and row i is frames
\* i .. i+floor(m)-1 flattened, then the first round((m mod 1)*D)
\* components of frame i + floor(m).
C14_FractionalRows ==
    (pc = "embed_done" /\ em.N > CeilingOf(em.m))
        => LET fl == FloorOf(em.m)
               part == RoundedRem(em.D, em.m)
           IN  /\ Y.status = "ok"
               /\ Y.cols = em.D * fl + part
               /\ \A k \in 0..(em.N - CeilingOf(em.m) - 1) :
                      /\ k + fl < em.N
                      /\ k \in DOMAIN Y.rowsOf
                      /\ DOMAIN Y.rowsOf[k] = 0..(em.D * fl + part - 1)
                      /\ \A c \in 0..(em.D * fl + part - 1) :
                             Y.rowsOf[k][c] =
                                 IF c < em.D * fl
                                 THEN em.X[k + (c \div em.D)][c % em.D]
                                 ELSE em.X[k + fl][c - em.D * fl]

\* C15, as stated: whenever N <= ceil(m), embedded_space returns an empty
\* result with zero rows and raises nothing.
C15_EmptyWhenShort ==
    (pc = "embed_done" /\ em.N <= CeilingOf(em.m))
        => /\ Y.status = "ok"
           /\ Y.rows = 0
           /\ Y.rowsOf = << >>

\* C12, novelty normalization: for structural features of n >= 2 rows of
\* which two consecutive ones differ, entry i <= n-2 of compute_nc's curve
\* is (distance of rows i and i+1, plus |min|) / max, the curve has a 0 and
\* a 1, and every entry lies in [0, 1].
C12_Normalized ==
    (pc = "nc_done" /\ SF.rows >= 2 /\ \E k \in DOMAIN dist : dist[k] # 0)
        => LET n == SF.rows
               lo == MinOf(Image(dist) \cup {0})
               sh == IF lo < 0 THEN -lo ELSE lo
               hi == MaxOf({dist[k] + sh : k \in DOMAIN dist} \cup {sh})
           IN  /\ ~nc.nan
               /\ nc.den > 0
               /\ \A k \in 0..(n - 2) : nc.num[k] * hi = (dist[k] + sh) * nc.den
               /\ \E k \in 0..(nc.len - 1) : nc.num[k] = 0
               /\ \E k \in 0..(nc.len - 1) : nc.num[k] = nc.den
               /\ \A k \in 0..(nc.len - 1) : 0 <= nc.num[k] /\ nc.num[k] <= nc.den

\* C12 witness: the distances 1, 2, 1 of four rows have been normalized by
\* their maximum 2.
C12_Witness ==
    /\ pc = "nc_done"
    /\ SF.rows = 4
    /\ dist[0] = 1 /\ dist[1] = 2 /\ dist[2] = 1
    /\ nc.den = 2

NormalTrace ==
    <<"embedded_space", "recurrence_matrix", "circular_shift",
      "gaussian_filter", "gaussian_filter", "compute_nc", "pick_peaks",
      "assemble", "_postprocess">>

ShortTrace == <<"assemble", "_postprocess">>

IsPrefix(p, q) == Len(p) <= Len(q) /\ \A b \in DOMAIN p : p[b] = q[b]

\* C13, short-track state machine: a call is TOO_SHORT iff F has 20 frames
\* or fewer.  TOO_SHORT executes no pipeline stage; NORMAL executes embedder,
\* affinity builder, lag transformer, structure filter (its two gaussian
\* filters), novelty extractor and peak picker once each in that order,
\* each on the output of the one before; the assembler runs last on both
\* paths and nothing is executed twice.
C13_StateMachine ==
    /\ IsPrefix(trace, IF F.rows <= 20 THEN ShortTrace ELSE NormalTrace)
    /\ pc \in {"return", "done"}
         => trace = (IF F.rows <= 20 THEN ShortTrace ELSE NormalTrace)
    /\ (pc = "return" /\ F.rows > 20)
         => /\ E.data = <<"F", "embedded_space">>
            /\ R.data = Append(E.data, "recurrence_matrix")
            /\ L.data = Append(Append(Append(R.data, "circular_shift"),
                                      "gaussian_filter"), "gaussian_filter")
            /\ SF.data = L.data
            /\ nc.len = SF.rows
            /\ SF.rows = E.rows
    /\ (pc = "return" /\ F.rows <= 20)
         => /\ E = Unset /\ R = Unset /\ L = Unset /\ SF = Unset
            /\ nc = NoCurve

\* C13 witness: a call on 21 frames has run every stage and picked a peak.
C13_Witness ==
    /\ pc = "return"
    /\ F.rows = 21
    /\ trace = NormalTrace
    /\ Len(est_bounds) >= 1

\* C16, boundary indices stay in range: in NORMAL every picked peak p has
\* 1 <= p <= N'-2 (N' = N - ceil(m)) and, re-aligned to p + ceil(m/2), lies
\* strictly between 0 and len(frame_times)-1; so the indices 0, re-aligned
\* peaks, len(frame_times)-1 are strictly increasing and index frame_times
\* in range, with the two sentinels and at most N'-2 boundaries between.
C16_InRange ==
    /\ (pc = "assemble" /\ F.rows > 20)
         => LET Nemb == F.rows - CeilingOf(config.m_embedded)
                shift == CeilingOf(Half(config.m_embedded))
            IN  /\ nc.len = Nemb
                /\ Len(est_bounds) <= Nemb - 2
                /\ \A b \in DOMAIN est_bounds :
                       /\ 1 <= est_bounds[b] - shift
                       /\ est_bounds[b] - shift <= Nemb - 2
                       /\ 0 < est_bounds[b]
                       /\ est_bounds[b] < ArrayLen(frame_times) - 1
    /\ (pc = "return" /\ F.rows > 20)
         => /\ StrictlyIncreasing(bound_idxs)
            /\ \A b \in DOMAIN bound_idxs : bound_idxs[b] \in DOMAIN frame_times
            /\ bound_idxs[1] = 0
            /\ bound_idxs[Len(bound_idxs)] = ArrayLen(frame_times) - 1
            /\ Len(bound_idxs) >= 2
            /\ Len(bound_idxs) - 2 <= nc.len - 2

\* C16 witness: a NORMAL call with the fractional order m = 17.5 picked the
\* peak 1 and re-aligned it to 1 + 9.
C16_Witness ==
    /\ pc = "return"
    /\ F.rows > 20
    /\ config.m_embedded = Rat(35, 2)
    /\ Len(est_bounds) >= 1
    /\ est_bounds[1] = 10

====
